---- MODULE Spec2Model ----
(***************************************************************************)
(* Power Solution: the location service (detectLocation) and the two      *)
(* React sections, ADUSection and SolarSection, as state machines.        *)
(*                                                                         *)
(* One step of a component is one uninterrupted piece of JavaScript: an   *)
(* event handler, or the continuation of an async function from one await *)
(* to the next, together with the React render and the effects that       *)
(* follow it.  State updates made in one such piece are committed         *)
(* together (React's batching), so each is one action.                    *)
(*                                                                         *)
(* The three components share no state: the sections only receive the     *)
(* location as a prop.  A behaviour therefore explores one component,     *)
(* named by `component`, while the others rest in their initial state.    *)
(* The form inputs of SolarSection are written by their own handlers and  *)
(* only read by the consult handlers; a behaviour of "SolarSection form"  *)
(* explores the numeric inputs with the priority and mode buttons,        *)
(* without consultations.                                                  *)
(* The highlight list and the image overlay of ADUSection have state of   *)
(* their own that nothing else reads or writes; a behaviour of            *)
(* "ADUSection viewer" explores the clicks on them.                       *)
(***************************************************************************)
EXTENDS Integers, Sequences, FiniteSets, TLC

VARIABLES
    component,      \* the component this behaviour explores
    \* ---- services/locationService.ts: one invocation of detectLocation
    dl_pc,          \* "idle" | "await_fetch" | "await_json" | "done" | "rejected"
    dl_response,    \* what fetch() settled to
    dl_data,        \* what response.json() settled to
    dl_result,      \* the value the returned promise resolved to
    dl_fetches,     \* HTTP requests issued by the current invocation
    dl_calls,       \* invocations so far
    \* ---- ADUSection
    adu_location,   \* the location prop
    adu_config,     \* useState: size, intendedUse, addons
    adu_addonsRef,  \* identity of the object held in config.addons
    adu_loading,    \* useState
    adu_result,     \* useState
    adu_memo,       \* the four useMemo cells: dependencies and cached value
    adu_effectDeps, \* the dependencies the effect last ran with
    adu_pending,    \* getADUConsultation calls that have not settled
    adu_issued,     \* getADUConsultation calls made so far
    adu_errors,     \* console.error calls made by the section
    adu_isEnlarged, \* useState: the overlay with the enlarged image is shown
    adu_openHighlight, \* useState: null, or the index of the open highlight
    adu_click,      \* the last click on the viewer: its number, target and index
    \* ---- SolarSection
    solar_location, \* the location prop
    solar_mode,     \* useState: 'residential' | 'commercial'
    solar_resNeeds, \* useState
    solar_comNeeds, \* useState
    solar_loading,  \* useState
    solar_result,   \* useState
    solar_memo,     \* the two useMemo cells
    solar_pending,  \* consultation calls that have not settled
    solar_issued,   \* consultation calls made so far
    solar_errors,   \* console.error calls made by the section
    solar_input,    \* the last change event of a numeric input: field and text
    solar_crashed   \* a render has thrown: the section is unmounted

dlVars == <<dl_pc, dl_response, dl_data, dl_result, dl_fetches, dl_calls>>

aduConsultVars ==
    <<adu_location, adu_config, adu_addonsRef, adu_loading, adu_result,
      adu_memo, adu_effectDeps, adu_pending, adu_issued, adu_errors>>
aduViewerVars == <<adu_isEnlarged, adu_openHighlight, adu_click>>
aduVars == <<aduConsultVars, aduViewerVars>>

solarVars == <<solar_location, solar_mode, solar_resNeeds, solar_comNeeds,
               solar_loading, solar_result, solar_memo, solar_pending,
               solar_issued, solar_errors, solar_input, solar_crashed>>

vars == <<component, dlVars, aduVars, solarVars>>

Components ==
    {"locationService", "ADUSection", "ADUSection viewer", "SolarSection",
     "SolarSection form"}

(***************************************************************************)
(* Bounds of the model.                                                    *)
(***************************************************************************)
MaxCalls == 2           \* invocations of detectLocation in one behaviour
MaxRequests == 3        \* consultation calls one section makes in one behaviour
MaxTextLen == 2         \* characters of the text a numeric input hands to onChange
MaxClicks == 4          \* clicks on the highlights and the overlay in one behaviour

(***************************************************************************)
(* JavaScript values of the fields of the geolocation response.           *)
(***************************************************************************)
Undefined == [t |-> "undefined", v |-> ""]
JNull     == [t |-> "null", v |-> ""]
Str(s)    == [t |-> "string", v |-> s]

\* JavaScript truthiness, for the values above: undefined, null and the
\* empty string are falsy, every other string is truthy.
Truthy(x) == x.t = "string" /\ x.v # ""

\* a || b for a field value a and a default string b
OrElse(a, b) == IF Truthy(a) THEN a.v ELSE b

CityValues    == {Undefined, JNull, Str(""), Str("St. Catharines"), Str("Vancouver")}
RegionValues  == {Undefined, JNull, Str(""), Str("ON"), Str("BC")}
CountryValues == {Undefined, JNull, Str(""), Str("Canada"), Str("United States")}

\* What a response body can be: text that is not JSON, or JSON for null, for
\* a primitive (a number: reading a property of it gives undefined), or for
\* an object with any of the three fields.
NonObject(k) == [kind |-> k, city |-> Undefined, region_code |-> Undefined,
                 country |-> Undefined]
InvalidBody == NonObject("invalid")
NullBody    == NonObject("null")
NumberBody  == NonObject("number")
ObjectBodies ==
    { [kind |-> "object", city |-> c, region_code |-> r, country |-> k] :
        c \in CityValues, r \in RegionValues, k \in CountryValues }
Bodies == {InvalidBody, NullBody, NumberBody} \cup ObjectBodies

NoData     == NonObject("none")
NoResponse == [state |-> "pending", ok |-> FALSE, body |-> NoData]
NoLocation == [city |-> "", region |-> "", country |-> "", isDetected |-> FALSE]

(***************************************************************************)
(* detectLocation                                                          *)
(***************************************************************************)
\* the object returned from the try block
DetectedLocationMutant(data) ==
    [city       |-> OrElse(data.city, "St. Catharines"),
     region     |-> OrElse(data.region_code, "ON"),
     country    |-> OrElse(data.region_code, "Canada"),
     isDetected |-> TRUE]
DetectedLocation(data) ==
    [city       |-> OrElse(data.city, "St. Catharines"),
     region     |-> OrElse(data.region_code, "ON"),
     country    |-> OrElse(data.country, "Canada"),
     isDetected |-> TRUE]

\* the object returned from the catch block
FallbackLocation ==
    [city |-> "St. Catharines", region |-> "ON", country |-> "Canada",
     isDetected |-> FALSE]

\* if (!response.ok) throw ...
DL_NotOkMutant(response) == FALSE
DL_NotOk(response) == ~response.ok

\* reading data.city throws a TypeError when data is null
DL_ReadThrows(data) == data.kind = "null"

\* the number of requests after fetch(...) has been called
DL_IssueFetchMutant(n) == n + 2
DL_IssueFetch(n) == n + 1

\* A throw inside try { } runs the catch block, which returns the fallback:
\* the promise resolves.
DL_Catch ==
    /\ dl_pc' = "done"
    /\ dl_result' = FallbackLocation

\* detectLocation() is called: fetch is issued and awaited.
DL_Call ==
    /\ component = "locationService"
    /\ dl_pc \in {"idle", "done", "rejected"}
    /\ dl_calls < MaxCalls
    /\ dl_calls' = dl_calls + 1
    /\ dl_fetches' = DL_IssueFetch(0)
    /\ dl_pc' = "await_fetch"
    /\ dl_response' = NoResponse
    /\ dl_data' = NoData
    /\ dl_result' = NoLocation
    /\ UNCHANGED <<component, aduVars, solarVars>>

\* fetch rejects (no network, DNS, CORS ...): catch.
DL_FetchRejects ==
    /\ component = "locationService"
    /\ dl_pc = "await_fetch"
    /\ dl_response' = [state |-> "rejected", ok |-> FALSE, body |-> NoData]
    /\ DL_Catch
    /\ UNCHANGED <<component, aduVars, solarVars, dl_data, dl_fetches, dl_calls>>

\* fetch fulfils with a response: a status that is not ok throws, otherwise
\* response.json() is called and awaited.
DL_FetchFulfils ==
    /\ component = "locationService"
    /\ dl_pc = "await_fetch"
    /\ \E ok \in BOOLEAN, body \in Bodies :
        /\ dl_response' = [state |-> "fulfilled", ok |-> ok, body |-> body]
        /\ IF DL_NotOk(dl_response')
             THEN DL_Catch
             ELSE /\ dl_pc' = "await_json"
                  /\ UNCHANGED dl_result
    /\ UNCHANGED <<component, aduVars, solarVars, dl_data, dl_fetches, dl_calls>>

\* response.json() settles: it rejects when the body is not JSON; otherwise
\* the result object is built from data, which throws when data is null.
DL_JsonSettles ==
    /\ component = "locationService"
    /\ dl_pc = "await_json"
    /\ IF dl_response.body.kind = "invalid"
         THEN /\ DL_Catch
              /\ UNCHANGED dl_data
         ELSE /\ dl_data' = dl_response.body
              /\ IF DL_ReadThrows(dl_data')
                   THEN DL_Catch
                   ELSE /\ dl_pc' = "done"
                        /\ dl_result' = DetectedLocation(dl_data')
    /\ UNCHANGED <<component, aduVars, solarVars, dl_response, dl_fetches, dl_calls>>

NextLocationService ==
    \/ DL_Call
    \/ DL_FetchRejects
    \/ DL_FetchFulfils
    \/ DL_JsonSettles

(***************************************************************************)
(* data/businessKnowledge: the regional knowledge table, as the glossary   *)
(* describes it: a static mapping from a region code to pricing tiers and  *)
(* a policy URL.  Its keys are the ones the sections name, 'ON', 'BC' and  *)
(* 'Default', and the keys are its only properties.  Every entry has its   *)
(* own prices and its own URL, so that an entry is known by its values.    *)
(***************************************************************************)
RegionKeys == {"ON", "BC", "Default"}
Tiers == {"studio", "oneBed", "twoBed"}

regionalKnowledge ==
    [k \in RegionKeys |->
        [aduPricing |->
            [t \in Tiers |->
                [rentalEstimate |-> "$rent " \o k \o " " \o t,
                 basePrice      |-> "$base " \o k \o " " \o t]],
         policyUrl |-> "https://policy/" \o k]]

\* the value standing for a TypeError thrown while rendering (a property
\* read from undefined): the section does not render
TypeError == "TypeError"

\* the location prop: the fallback and two detected locations, one in a
\* region of the table and one in a region that is not a key of it
LocationProps ==
    {FallbackLocation,
     [city |-> "Vancouver", region |-> "BC", country |-> "Canada",
      isDetected |-> TRUE],
     [city |-> "Montreal", region |-> "QC", country |-> "Canada",
      isDetected |-> TRUE]}

(***************************************************************************)
(* useMemo: a cell keeps the dependencies it was computed with and the     *)
(* value; a render recomputes the value only when a dependency changed.    *)
(***************************************************************************)
UseMemo(cell, deps, fresh) ==
    IF cell.deps = deps THEN cell ELSE [deps |-> deps, value |-> fresh]
\* the cell before the first render
NoCell == [deps |-> <<>>, value |-> ""]

(***************************************************************************)
(* ADUSection                                                              *)
(***************************************************************************)
Sizes == {"studio", "1-bedroom", "2-bedroom"}
\* the add-ons that have a button (addonOptions)
AddonKeys == {"energyIndependence", "zonalComfort", "smartSecurity"}

ADU_InitialConfig ==
    [size |-> "studio", intendedUse |-> "rental",
     addons |-> [energyIndependence |-> FALSE, smartSecurity |-> FALSE,
                 carbonNeutral |-> FALSE, zonalComfort |-> FALSE]]

\* location.region in regionalKnowledge ? location.region : 'ON'
ADU_activeRegionMutant(region) == region
ADU_activeRegion(region) ==
    IF region \in DOMAIN regionalKnowledge THEN region ELSE "ON"

\* the switch over config.size, on the pricing of the active region
ADU_rentalIncome(size, activeRegion) ==
    IF activeRegion \notin DOMAIN regionalKnowledge THEN TypeError
    ELSE LET pricing == regionalKnowledge[activeRegion].aduPricing
         IN CASE size = "studio"    -> pricing.studio.rentalEstimate
              [] size = "1-bedroom" -> pricing.oneBed.rentalEstimate
              [] size = "2-bedroom" -> pricing.twoBed.rentalEstimate
              [] OTHER              -> "$0"

ADU_basePriceMutant(size, activeRegion) ==
    IF activeRegion \notin DOMAIN regionalKnowledge THEN TypeError
    ELSE LET pricing == regionalKnowledge[activeRegion].aduPricing
         IN CASE size = "studio"    -> pricing.studio.basePrice
              [] size = "1-bedroom" -> pricing.oneBed.basePrice
              [] size = "2-bedroom" -> pricing.oneBed.basePrice
              [] OTHER              -> "$0"
ADU_basePrice(size, activeRegion) ==
    IF activeRegion \notin DOMAIN regionalKnowledge THEN TypeError
    ELSE LET pricing == regionalKnowledge[activeRegion].aduPricing
         IN CASE size = "studio"    -> pricing.studio.basePrice
              [] size = "1-bedroom" -> pricing.oneBed.basePrice
              [] size = "2-bedroom" -> pricing.twoBed.basePrice
              [] OTHER              -> "$0"

\* (regionalKnowledge[activeRegion] || regionalKnowledge['Default']): the key
\* of the entry the policy URL is read from
ADU_policyEntry(activeRegion) ==
    IF activeRegion \in DOMAIN regionalKnowledge THEN activeRegion ELSE "Default"
ADU_policyLink(activeRegion) ==
    IF ADU_policyEntry(activeRegion) \in DOMAIN regionalKnowledge
      THEN regionalKnowledge[ADU_policyEntry(activeRegion)].policyUrl
      ELSE TypeError

\* the region named in the funding copy
ADU_regionCopy(region) ==
    IF region = "ON" THEN "Ontario"
    ELSE IF region = "BC" THEN "British Columbia" ELSE region

\* One render: the four useMemo calls in order, each with its dependency
\* array.
ADU_Render(memo, location, config) ==
    LET ar == UseMemo(memo.activeRegion, <<location.region>>,
                      ADU_activeRegion(location.region))
    IN [activeRegion |-> ar,
        rentalIncome |-> UseMemo(memo.rentalIncome, <<config.size, ar.value>>,
                                 ADU_rentalIncome(config.size, ar.value)),
        basePrice    |-> UseMemo(memo.basePrice, <<config.size, ar.value>>,
                                 ADU_basePrice(config.size, ar.value)),
        policyLink   |-> UseMemo(memo.policyLink, <<ar.value>>,
                                 ADU_policyLink(ar.value))]

ADU_NoMemo ==
    [activeRegion |-> NoCell, rentalIncome |-> NoCell, basePrice |-> NoCell,
     policyLink |-> NoCell]

\* a dependency array without config.addons
ADU_EffectDepsMutant(config, addonsRef) == <<config.size>>

\* the dependency array of the effect: config.addons is compared by identity
ADU_EffectDeps(config, addonsRef) == <<config.size, addonsRef>>

(***************************************************************************)
(* services/geminiService: getADUConsultation and getSolarConsultation     *)
(* make one call to the completion endpoint and return a promise that      *)
(* resolves to a consultation with the four fields of the schema, or       *)
(* rejects.  `req` records which call a value answers.                     *)
(***************************************************************************)
SchemaFields == {"summary", "recommendations", "estimatedCostRange", "roiEstimate"}
NullResult == [kind |-> "null", fields |-> {}, recsIsList |-> FALSE, req |-> 0]
Consultation(id) ==
    [kind |-> "object", fields |-> SchemaFields, recsIsList |-> TRUE, req |-> id]

\* fetchSpecs up to its await: setLoading(true) and the service call.  A
\* pending call is known by its number and the config it was made with (the
\* location passed with it plays no part in what the section does next).
ADU_fetchSpecs(config) ==
    /\ adu_loading' = TRUE
    /\ adu_issued' = adu_issued + 1
    /\ adu_pending' = adu_pending \cup {[id |-> adu_issued + 1, config |-> config]}

\* What follows a state or prop change made by the user or the parent: the
\* render, and the effect when one of its dependencies changed.
ADU_Commit(location, config, addonsRef) ==
    /\ adu_location' = location
    /\ adu_config' = config
    /\ adu_addonsRef' = addonsRef
    /\ adu_memo' = ADU_Render(adu_memo, location, config)
    /\ adu_effectDeps' = ADU_EffectDeps(config, addonsRef)
    /\ IF adu_effectDeps' # adu_effectDeps
         THEN /\ adu_issued < MaxRequests
              /\ ADU_fetchSpecs(config)
         ELSE UNCHANGED <<adu_loading, adu_issued, adu_pending>>
    /\ UNCHANGED <<adu_result, adu_errors>>

\* a config that keeps nothing of the one on screen but takes the new size
selectSizeMutant(config, s) == [ADU_InitialConfig EXCEPT !.size = s]

\* the value a size button stores: { ...config, size: s.id }
selectSize(config, s) == [config EXCEPT !.size = s]

\* a click on a size button: setConfig({ ...config, size: s.id })
ADU_SelectSize ==
    /\ component = "ADUSection"
    /\ \E s \in Sizes :
         ADU_Commit(adu_location, selectSize(adu_config, s), adu_addonsRef)
    /\ UNCHANGED <<component, dlVars, solarVars, aduViewerVars>>

\* a toggle that switches the add-on on and never off
toggleAddonMutant(config, key) ==
    [config EXCEPT !.addons = [config.addons EXCEPT ![key] = TRUE]]

\* toggleAddon(key): a new config with a new addons object
toggleAddon(config, key) ==
    [config EXCEPT !.addons = [config.addons EXCEPT ![key] = ~config.addons[key]]]

ADU_ToggleAddon ==
    /\ component = "ADUSection"
    /\ \E key \in AddonKeys :
         ADU_Commit(adu_location, toggleAddon(adu_config, key), adu_addonsRef + 1)
    /\ UNCHANGED <<component, dlVars, solarVars, aduViewerVars>>

\* the parent passes another location
ADU_LocationChange ==
    /\ component = "ADUSection"
    /\ \E l \in LocationProps \ {adu_location} :
         ADU_Commit(l, adu_config, adu_addonsRef)
    /\ UNCHANGED <<component, dlVars, solarVars, aduViewerVars>>

\* a call resolves: setResult(res), then finally setLoading(false)
ADU_ConsultResolves ==
    /\ component = "ADUSection"
    /\ \E r \in adu_pending :
        /\ adu_pending' = adu_pending \ {r}
        /\ adu_result' = Consultation(r.id)
        /\ adu_loading' = FALSE
    /\ adu_memo' = ADU_Render(adu_memo, adu_location, adu_config)
    /\ UNCHANGED <<component, dlVars, solarVars, aduViewerVars, adu_location,
                   adu_config, adu_addonsRef,
                   adu_effectDeps, adu_issued, adu_errors>>

\* a catch block that also clears the result
ADU_ConsultRejectsMutant ==
    /\ component = "ADUSection"
    /\ \E r \in adu_pending :
        /\ adu_pending' = adu_pending \ {r}
        /\ adu_errors' = adu_errors + 1
        /\ adu_loading' = FALSE
    /\ adu_result' = NullResult
    /\ adu_memo' = ADU_Render(adu_memo, adu_location, adu_config)
    /\ UNCHANGED <<component, dlVars, solarVars, aduViewerVars, adu_location,
                   adu_config, adu_addonsRef,
                   adu_effectDeps, adu_issued>>

\* a call rejects: console.error(err), then finally setLoading(false)
ADU_ConsultRejects ==
    /\ component = "ADUSection"
    /\ \E r \in adu_pending :
        /\ adu_pending' = adu_pending \ {r}
        /\ adu_errors' = adu_errors + 1
        /\ adu_loading' = FALSE
    /\ adu_memo' = ADU_Render(adu_memo, adu_location, adu_config)
    /\ UNCHANGED <<component, dlVars, solarVars, aduViewerVars, adu_location,
                   adu_config, adu_addonsRef,
                   adu_effectDeps, adu_issued, adu_result>>

(***************************************************************************)
(* The viewer: the four highlights, of which the one whose index is in     *)
(* openHighlight is rendered open, and the overlay, rendered while         *)
(* isEnlarged is true.                                                     *)
(***************************************************************************)
HighlightIndices == 0..3
\* the values of openHighlight: null or an index
HNull == [null |-> TRUE, idx |-> 0]
HIdx(i) == [null |-> FALSE, idx |-> i]
\* the highlights rendered open: openHighlight === idx
ADU_OpenHighlights(openHighlight) ==
    {idx \in HighlightIndices : openHighlight = HIdx(idx)}

NoClick == [n |-> 0, target |-> "none", idx |-> 0]

\* a click on `target` is dispatched
ADU_Click(target, idx) ==
    /\ component = "ADUSection viewer"
    /\ adu_click.n < MaxClicks
    /\ adu_click' = [n |-> adu_click.n + 1, target |-> target, idx |-> idx]
    /\ UNCHANGED <<component, dlVars, solarVars, aduConsultVars>>

\* the button of highlight idx:
\* setOpenHighlight(openHighlight === idx ? null : idx)
ADU_ClickHighlight ==
    /\ \E idx \in HighlightIndices :
         /\ ADU_Click("highlight", idx)
         /\ adu_openHighlight' =
               (IF adu_openHighlight = HIdx(idx) THEN HNull ELSE HIdx(idx))
    /\ UNCHANGED adu_isEnlarged

\* the container of the framework image: setIsEnlarged(true)
ADU_ClickFrameworkImage ==
    /\ ADU_Click("frameworkImage", 0)
    /\ adu_isEnlarged' = TRUE
    /\ UNCHANGED adu_openHighlight

\* an image whose click handler lets the event go on to the overlay
ADU_StopsPropagationMutant(target) == FALSE

\* the handler of the target calls e.stopPropagation()
ADU_StopsPropagation(target) == target = "enlargedImage"

\* the click reaches the overlay unless a handler below it stopped it:
\* setIsEnlarged(false)
ADU_OverlayOnClick(target) ==
    adu_isEnlarged' = (IF ADU_StopsPropagation(target) THEN adu_isEnlarged ELSE FALSE)

\* a click on the overlay itself, beside the image
ADU_ClickOverlay ==
    /\ adu_isEnlarged
    /\ ADU_Click("overlay", 0)
    /\ ADU_OverlayOnClick("overlay")
    /\ UNCHANGED adu_openHighlight

\* the close button: setIsEnlarged(false), and the click goes on to the overlay
ADU_ClickCloseButton ==
    /\ adu_isEnlarged
    /\ ADU_Click("closeButton", 0)
    /\ ADU_OverlayOnClick("closeButton")
    /\ UNCHANGED adu_openHighlight

\* the enlarged image: e.stopPropagation()
ADU_ClickEnlargedImage ==
    /\ adu_isEnlarged
    /\ ADU_Click("enlargedImage", 0)
    /\ ADU_OverlayOnClick("enlargedImage")
    /\ UNCHANGED adu_openHighlight

NextADUSection ==
    \/ ADU_SelectSize
    \/ ADU_ToggleAddon
    \/ ADU_LocationChange
    \/ ADU_ConsultResolves
    \/ ADU_ConsultRejects
    \/ ADU_ClickHighlight
    \/ ADU_ClickFrameworkImage
    \/ ADU_ClickOverlay
    \/ ADU_ClickCloseButton
    \/ ADU_ClickEnlargedImage

\* ADUSection after it has mounted: the first render, then the effect
ADU_Init ==
    /\ adu_location \in
          (IF component = "ADUSection" THEN LocationProps ELSE {FallbackLocation})
    /\ adu_config = ADU_InitialConfig
    /\ adu_addonsRef = 0
    /\ adu_result = NullResult
    /\ adu_memo = ADU_Render(ADU_NoMemo, adu_location, adu_config)
    /\ adu_effectDeps = ADU_EffectDeps(adu_config, adu_addonsRef)
    /\ adu_loading = TRUE
    /\ adu_issued = 1
    /\ adu_pending = {[id |-> 1, config |-> adu_config]}
    /\ adu_errors = 0
    /\ adu_isEnlarged = FALSE
    /\ adu_openHighlight = HNull
    /\ adu_click = NoClick

(***************************************************************************)
(* SolarSection                                                            *)
(***************************************************************************)
Modes == {"residential", "commercial"}
EnergyPriorities == {"savings", "independence"}
FacilityTypes == {"industrial", "office", "retail", "multi-unit"}

(***************************************************************************)
(* JavaScript numbers and parseInt.  A number is NaN or an integer (the    *)
(* texts are short, so no value leaves the range of exact integers; -0 is  *)
(* 0, which `||` treats alike).                                            *)
(***************************************************************************)
NaN == [nan |-> TRUE, n |-> 0]
Num(k) == [nan |-> FALSE, n |-> k]
\* x || d, for a number x
NumberOr(x, d) == IF x.nan \/ x.n = 0 THEN d ELSE x

Digits == {"0", "1", "2", "3", "4", "5", "6", "7", "8", "9"}
DigitValue ==
    [c \in Digits |->
       CASE c = "0" -> 0 [] c = "1" -> 1 [] c = "2" -> 2 [] c = "3" -> 3
         [] c = "4" -> 4 [] c = "5" -> 5 [] c = "6" -> 6 [] c = "7" -> 7
         [] c = "8" -> 8 [] OTHER -> 9]
WhiteSpace == {" "}

\* the characters of the texts: two digits, the sign, and a character that
\* a number may contain but an integer may not
InputChars == {"0", "4", "-", "e"}
\* e.target.value: a text, as the sequence of its characters
Texts == UNION {[1..n -> InputChars] : n \in 0..MaxTextLen}

RECURSIVE TrimStart(_)
TrimStart(text) ==
    IF text # <<>> /\ Head(text) \in WhiteSpace THEN TrimStart(Tail(text)) ELSE text

\* the characters before the first one that is not a digit
RECURSIVE DigitPrefix(_)
DigitPrefix(text) ==
    IF text # <<>> /\ Head(text) \in Digits
      THEN <<Head(text)>> \o DigitPrefix(Tail(text))
      ELSE <<>>

\* the integer that the digits z denote, read from the left
RECURSIVE MathInt(_, _)
MathInt(z, acc) ==
    IF z = <<>> THEN acc ELSE MathInt(Tail(z), 10 * acc + DigitValue[Head(z)])

\* parseInt(text) with no radix, for texts without a 0x prefix: white space
\* is skipped, a sign is taken, the digits up to the first other character
\* are read in base 10, and the result is NaN when there are none
parseInt(text) ==
    LET S == TrimStart(text)
        signed == S # <<>> /\ Head(S) \in {"+", "-"}
        negative == S # <<>> /\ Head(S) = "-"
        Z == DigitPrefix(IF signed THEN Tail(S) ELSE S)
    IN  IF Z = <<>> THEN NaN
        ELSE Num(IF negative THEN 0 - MathInt(Z, 0) ELSE MathInt(Z, 0))

\* an onChange handler that stores what parseInt returns
Solar_NumberOfMutant(text) == parseInt(text)

\* parseInt(e.target.value) || 0
Solar_NumberOf(text) == NumberOr(parseInt(text), Num(0))

Solar_InitialResNeeds ==
    [monthlyBill |-> Num(250), roofType |-> "asphalt-shingle",
     energyPriority |-> "savings"]
Solar_InitialComNeeds ==
    [facilityType |-> "industrial", squareFootage |-> Num(15000),
     primaryGoal |-> "cost-reduction"]

\* location.region in regionalKnowledge ? location.region : 'ON'
Solar_activeRegion(region) ==
    IF region \in DOMAIN regionalKnowledge THEN region ELSE "ON"

\* (regionalKnowledge[activeRegion] || regionalKnowledge['Default']).policyUrl
Solar_policyEntry(activeRegion) ==
    IF activeRegion \in DOMAIN regionalKnowledge THEN activeRegion ELSE "Default"
Solar_policyLink(activeRegion) ==
    IF Solar_policyEntry(activeRegion) \in DOMAIN regionalKnowledge
      THEN regionalKnowledge[Solar_policyEntry(activeRegion)].policyUrl
      ELSE TypeError

\* the region named in the grant notice
Solar_regionCopy(region) ==
    IF region = "ON" THEN "Ontario"
    ELSE IF region = "BC" THEN "British Columbia" ELSE region

Solar_Render(memo, location) ==
    LET ar == UseMemo(memo.activeRegion, <<location.region>>,
                      Solar_activeRegion(location.region))
    IN [activeRegion |-> ar,
        policyLink   |-> UseMemo(memo.policyLink, <<ar.value>>,
                                 Solar_policyLink(ar.value))]

Solar_NoMemo == [activeRegion |-> NoCell, policyLink |-> NoCell]

(***************************************************************************)
(* The values setResult can be given.  `from` and `req` record the call   *)
(* whose answer the value is; null has none.                               *)
(***************************************************************************)
SolarValue(kind, fields, recsIsList) ==
    [kind |-> kind, fields |-> fields, recsIsList |-> recsIsList,
     from |-> "none", req |-> 0]
SolarNull == SolarValue("null", {}, FALSE)
SolarConsultation == SolarValue("object", SchemaFields, TRUE)
AnswerTo(r, value) ==
    IF value.kind = "null" THEN value
    ELSE [value EXCEPT !.from = r.kind, !.req = r.id]

\* response.text of the completion call: absent, or text that is not JSON
\* (cut short, say), or JSON text for null, 0, a non-zero number, an empty
\* object, an object with only a recommendations list, an object with the
\* four fields whose recommendations is a string, or an object that follows
\* the schema.
ResponseTexts ==
    {"undefined", "not json", "null", "0", "42", "{}", "only recommendations",
     "recommendations is a string", "follows the schema"}

\* JSON.parse(text) throws a SyntaxError
JSONParseThrows(text) == text \in {"undefined", "not json"}
\* JSON.parse(text), for the other texts
JSONParse(text) ==
    CASE text = "null" -> SolarNull
      [] text = "0"    -> SolarValue("zero", {}, FALSE)
      [] text = "42"   -> SolarValue("number", {}, FALSE)
      [] text = "{}"   -> SolarValue("object", {}, FALSE)
      [] text = "only recommendations" ->
                          SolarValue("object", {"recommendations"}, TRUE)
      [] text = "recommendations is a string" ->
                          SolarValue("object", SchemaFields, FALSE)
      [] OTHER         -> SolarConsultation

\* JavaScript truthiness of a result: null and 0 are falsy
ResultTruthy(result) == result.kind \notin {"null", "zero"}

\* {result ? <panel with result.recommendations.map(...)> : <placeholder>}:
\* .map throws unless result.recommendations is a list
SolarView(result) ==
    IF ~ResultTruthy(result) THEN "placeholder"
    ELSE IF "recommendations" \in result.fields /\ result.recsIsList
           THEN "result"
           ELSE TypeError

\* disabled={loading} on both consult buttons
Solar_ConsultEnabledMutant(loading) == TRUE
Solar_ConsultEnabled(loading) == ~loading

\* the render that follows a change, which unmounts the section if it throws
Solar_Commit(location, result) ==
    /\ solar_location' = location
    /\ solar_result' = result
    /\ solar_memo' = Solar_Render(solar_memo, location)
    /\ solar_crashed' = (SolarView(result) = TypeError)

\* the behaviours in which the mode and priority buttons are used
Solar_Form == {"SolarSection", "SolarSection form"}

\* a mode button that clears the result only when the mode changes
Solar_SetModeMutant ==
    /\ component \in Solar_Form /\ ~solar_crashed
    /\ \E m \in Modes :
         /\ solar_mode' = m
         /\ Solar_Commit(solar_location,
                         IF m = solar_mode THEN solar_result ELSE SolarNull)
    /\ UNCHANGED <<component, dlVars, aduVars, solar_input,
                   solar_resNeeds, solar_comNeeds,
                   solar_loading, solar_pending, solar_issued, solar_errors>>

\* a click on a mode button: setMode(m); setResult(null)
Solar_SetMode ==
    /\ component \in Solar_Form /\ ~solar_crashed
    /\ \E m \in Modes : solar_mode' = m
    /\ Solar_Commit(solar_location, SolarNull)
    /\ UNCHANGED <<component, dlVars, aduVars, solar_input,
                   solar_resNeeds, solar_comNeeds,
                   solar_loading, solar_pending, solar_issued, solar_errors>>

\* a click on a priority button (residential form)
Solar_SetEnergyPriority ==
    /\ component \in Solar_Form /\ ~solar_crashed
    /\ solar_mode = "residential"
    /\ \E p \in EnergyPriorities :
         solar_resNeeds' = [solar_resNeeds EXCEPT !.energyPriority = p]
    /\ Solar_Commit(solar_location, solar_result)
    /\ UNCHANGED <<component, dlVars, aduVars, solar_input, solar_mode, solar_comNeeds,
                   solar_loading, solar_pending, solar_issued, solar_errors>>

\* a click on a facility button (commercial form)
Solar_SetFacilityType ==
    /\ component = "SolarSection" /\ ~solar_crashed
    /\ solar_mode = "commercial"
    /\ \E t \in FacilityTypes :
         solar_comNeeds' = [solar_comNeeds EXCEPT !.facilityType = t]
    /\ Solar_Commit(solar_location, solar_result)
    /\ UNCHANGED <<component, dlVars, aduVars, solar_input, solar_mode, solar_resNeeds,
                   solar_loading, solar_pending, solar_issued, solar_errors>>

\* a change event of the monthly bill input (residential form)
Solar_SetMonthlyBill ==
    /\ component = "SolarSection form" /\ ~solar_crashed
    /\ solar_mode = "residential"
    /\ \E text \in Texts :
         /\ solar_input' = [field |-> "monthlyBill", text |-> text]
         /\ solar_resNeeds' =
               [solar_resNeeds EXCEPT !.monthlyBill = Solar_NumberOf(text)]
    /\ Solar_Commit(solar_location, solar_result)
    /\ UNCHANGED <<component, dlVars, aduVars, solar_mode, solar_comNeeds,
                   solar_loading, solar_pending, solar_issued, solar_errors>>

\* a change event of the square footage input (commercial form)
Solar_SetSquareFootage ==
    /\ component = "SolarSection form" /\ ~solar_crashed
    /\ solar_mode = "commercial"
    /\ \E text \in Texts :
         /\ solar_input' = [field |-> "squareFootage", text |-> text]
         /\ solar_comNeeds' =
               [solar_comNeeds EXCEPT !.squareFootage = Solar_NumberOf(text)]
    /\ Solar_Commit(solar_location, solar_result)
    /\ UNCHANGED <<component, dlVars, aduVars, solar_mode, solar_resNeeds,
                   solar_loading, solar_pending, solar_issued, solar_errors>>

\* the parent passes another location
Solar_LocationChange ==
    /\ component = "SolarSection" /\ ~solar_crashed
    /\ \E l \in LocationProps \ {solar_location} :
         Solar_Commit(l, solar_result)
    /\ UNCHANGED <<component, dlVars, aduVars, solar_input, solar_mode, solar_resNeeds,
                   solar_comNeeds, solar_loading, solar_pending, solar_issued,
                   solar_errors>>

\* a consult handler up to its await: setLoading(true) and the call.  A
\* pending call is known by its number, its kind and the needs it was made
\* with; `shown` remembers the result that was stored when it was made.
Solar_StartConsult(kind, needs) ==
    /\ Solar_ConsultEnabled(solar_loading)
    /\ solar_issued < MaxRequests
    /\ solar_loading' = TRUE
    /\ solar_issued' = solar_issued + 1
    /\ solar_pending' = solar_pending \cup
          {[id |-> solar_issued + 1, kind |-> kind, needs |-> needs,
            shown |-> solar_result]}
    /\ Solar_Commit(solar_location, solar_result)
    /\ UNCHANGED <<component, dlVars, aduVars, solar_input, solar_mode, solar_resNeeds,
                   solar_comNeeds, solar_errors>>

\* handleResidentialConsult, from the click to the await
handleResidentialConsult ==
    /\ component = "SolarSection" /\ ~solar_crashed
    /\ solar_mode = "residential"
    /\ Solar_StartConsult("residential", solar_resNeeds)

\* handleCommercialConsult, from the click to the await
handleCommercialConsult ==
    /\ component = "SolarSection" /\ ~solar_crashed
    /\ solar_mode = "commercial"
    /\ Solar_StartConsult("commercial", solar_comNeeds)

\* try { setResult(value) } finally { setLoading(false) }
Solar_Succeed(r, value) ==
    /\ solar_pending' = solar_pending \ {r}
    /\ solar_loading' = FALSE
    /\ Solar_Commit(solar_location, AnswerTo(r, value))
    /\ UNCHANGED solar_errors

\* a catch block that also clears the result
Solar_FailMutant(r) ==
    /\ solar_pending' = solar_pending \ {r}
    /\ solar_loading' = FALSE
    /\ solar_errors' = solar_errors + 1
    /\ Solar_Commit(solar_location, SolarNull)
\* a failure path without the finally block
Solar_FailNoFinally(r) ==
    /\ solar_pending' = solar_pending \ {r}
    /\ solar_loading' = solar_loading
    /\ solar_errors' = solar_errors + 1
    /\ Solar_Commit(solar_location, solar_result)

\* catch (err) { console.error(err) } finally { setLoading(false) }
Solar_Fail(r) ==
    /\ solar_pending' = solar_pending \ {r}
    /\ solar_loading' = FALSE
    /\ solar_errors' = solar_errors + 1
    /\ Solar_Commit(solar_location, solar_result)

\* getSolarConsultation resolves
Solar_ResidentialResolves ==
    /\ component = "SolarSection" /\ ~solar_crashed
    /\ \E r \in solar_pending :
        /\ r.kind = "residential"
        /\ Solar_Succeed(r, SolarConsultation)
    /\ UNCHANGED <<component, dlVars, aduVars, solar_input, solar_mode, solar_resNeeds,
                   solar_comNeeds, solar_issued>>

\* getSolarConsultation rejects
Solar_ResidentialRejects ==
    /\ component = "SolarSection" /\ ~solar_crashed
    /\ \E r \in solar_pending :
        /\ r.kind = "residential"
        /\ Solar_Fail(r)
    /\ UNCHANGED <<component, dlVars, aduVars, solar_input, solar_mode, solar_resNeeds,
                   solar_comNeeds, solar_issued>>

\* ai.models.generateContent resolves: setResult(JSON.parse(response.text))
Solar_CommercialResponds ==
    /\ component = "SolarSection" /\ ~solar_crashed
    /\ \E r \in solar_pending, text \in ResponseTexts :
        /\ r.kind = "commercial"
        /\ IF JSONParseThrows(text)
             THEN Solar_Fail(r)
             ELSE Solar_Succeed(r, JSONParse(text))
    /\ UNCHANGED <<component, dlVars, aduVars, solar_input, solar_mode, solar_resNeeds,
                   solar_comNeeds, solar_issued>>

\* ai.models.generateContent rejects
Solar_CommercialRejects ==
    /\ component = "SolarSection" /\ ~solar_crashed
    /\ \E r \in solar_pending :
        /\ r.kind = "commercial"
        /\ Solar_Fail(r)
    /\ UNCHANGED <<component, dlVars, aduVars, solar_input, solar_mode, solar_resNeeds,
                   solar_comNeeds, solar_issued>>

NextSolarSection ==
    \/ Solar_SetMode
    \/ Solar_SetEnergyPriority
    \/ Solar_SetFacilityType
    \/ Solar_SetMonthlyBill
    \/ Solar_SetSquareFootage
    \/ Solar_LocationChange
    \/ handleResidentialConsult
    \/ handleCommercialConsult
    \/ Solar_ResidentialResolves
    \/ Solar_ResidentialRejects
    \/ Solar_CommercialResponds
    \/ Solar_CommercialRejects

\* SolarSection after it has mounted
Solar_Init ==
    /\ solar_location \in
          (IF component = "SolarSection" THEN LocationProps ELSE {FallbackLocation})
    /\ solar_mode = "residential"
    /\ solar_resNeeds = Solar_InitialResNeeds
    /\ solar_comNeeds = Solar_InitialComNeeds
    /\ solar_loading = FALSE
    /\ solar_result = SolarNull
    /\ solar_memo = Solar_Render(Solar_NoMemo, solar_location)
    /\ solar_pending = {}
    /\ solar_issued = 0
    /\ solar_errors = 0
    /\ solar_input = [field |-> "none", text |-> <<>>]
    /\ solar_crashed = FALSE

(***************************************************************************)
(* The specification                                                       *)
(***************************************************************************)
Init ==
    /\ component \in Components
    /\ dl_pc = "idle"
    /\ dl_response = NoResponse
    /\ dl_data = NoData
    /\ dl_result = NoLocation
    /\ dl_fetches = 0
    /\ dl_calls = 0
    /\ ADU_Init
    /\ Solar_Init

Next ==
    \/ NextLocationService
    \/ NextADUSection
    \/ NextSolarSection

Spec == Init /\ [][Next]_vars

\* Every network call eventually settles: while a consultation call of a
\* section is outstanding, one of its promises is eventually resolved or
\* rejected.
ADU_Settles == ADU_ConsultResolves \/ ADU_ConsultRejects
Solar_Settles ==
    \/ Solar_ResidentialResolves
    \/ Solar_ResidentialRejects
    \/ Solar_CommercialResponds
    \/ Solar_CommercialRejects

FairSpec == Spec /\ WF_vars(ADU_Settles) /\ WF_vars(Solar_Settles)

(***************************************************************************)
(* Claims about detectLocation                                             *)
(***************************************************************************)
DL_FetchFailed == dl_response.state = "rejected"
DL_StatusFailed == dl_response.state = "fulfilled" /\ ~dl_response.ok
DL_ParseFailed ==
    /\ dl_response.state = "fulfilled" /\ dl_response.ok
    /\ dl_response.body.kind = "invalid"
\* the request failed: fetch rejected, status not ok, or body not JSON
DL_RequestFailed == DL_FetchFailed \/ DL_StatusFailed \/ DL_ParseFailed
\* the request succeeded: ok status and a body that parses as JSON
DL_RequestSucceeded ==
    /\ dl_response.state = "fulfilled" /\ dl_response.ok
    /\ dl_response.body.kind # "invalid"

\* C1: detectLocation never rejects, and an invocation whose request failed
\* (fetch rejected, status not ok, or body not parseable as JSON) has
\* resolved to exactly the St. Catharines / ON / Canada fallback with
\* isDetected = false.
C1_FailureResolvesToFallback ==
    /\ dl_pc # "rejected"
    /\ (dl_pc = "done" /\ DL_RequestFailed) => dl_result = FallbackLocation

C1_Witness ==
    /\ dl_pc = "done"
    /\ DL_StatusFailed
    /\ dl_response.body.kind = "object"
    /\ dl_response.body.city = Str("Vancouver")
    /\ dl_result = FallbackLocation

\* C2: an invocation issues exactly one HTTP request: one is issued when it
\* starts and none is added while it waits or when it ends, on success or on
\* failure; a waiting invocation can always take its next step, and an
\* invocation that has ended has ended with a result.
C2_OneRequestPerInvocation ==
    /\ dl_pc # "idle" => dl_fetches = 1
    /\ dl_pc = "await_fetch" => ENABLED (DL_FetchRejects \/ DL_FetchFulfils)
    /\ dl_pc = "await_json" => ENABLED DL_JsonSettles
    /\ dl_pc \notin {"idle", "await_fetch", "await_json"} =>
          /\ dl_pc = "done"
          /\ dl_result \in {FallbackLocation} \cup
                 { DetectedLocation(b) : b \in Bodies }

C2_Witness ==
    /\ dl_pc = "done"
    /\ dl_calls = 2
    /\ DL_FetchFailed
    /\ dl_fetches = 1

\* what the claim expects of one field: the response's value when the field
\* is present and non-empty, the default otherwise
DL_PresentNonEmpty(x) == x \notin {Undefined, JNull, Str("")}
DL_Expected(x, default) == IF DL_PresentNonEmpty(x) THEN x.v ELSE default

DL_FieldsAsClaimed ==
    /\ dl_result.city = DL_Expected(dl_response.body.city, "St. Catharines")
    /\ dl_result.region = DL_Expected(dl_response.body.region_code, "ON")
    /\ dl_result.country = DL_Expected(dl_response.body.country, "Canada")

\* C3 (as stated): whenever the request succeeded (ok status, parseable JSON
\* body) the result has isDetected = true and the three fields as claimed,
\* so isDetected is false exactly when the request failed.
C3_Original ==
    dl_pc = "done" =>
        /\ DL_RequestSucceeded => (dl_result.isDetected /\ DL_FieldsAsClaimed)
        /\ ~dl_result.isDetected <=> DL_RequestFailed

\* C3 (amended): the same for every body that parses to a value other than
\* null; a body that is the JSON value null gives the fallback, so isDetected
\* is false exactly when the request failed or the body is null.
C3_SuccessFieldsByField ==
    dl_pc = "done" =>
        /\ (DL_RequestSucceeded /\ dl_response.body.kind # "null") =>
              (dl_result.isDetected /\ DL_FieldsAsClaimed)
        /\ (DL_RequestSucceeded /\ dl_response.body.kind = "null") =>
              dl_result = FallbackLocation
        /\ ~dl_result.isDetected <=>
              (DL_RequestFailed \/ dl_response.body.kind = "null")

\* a success whose fields all equal the defaults, one taken from the
\* response, one defaulted from an absent field, one from an empty one
C3_Witness ==
    /\ dl_pc = "done"
    /\ DL_RequestSucceeded
    /\ dl_response.body.city = Str("St. Catharines")
    /\ dl_response.body.region_code = Undefined
    /\ dl_response.body.country = Str("")
    /\ dl_result = [FallbackLocation EXCEPT !.isDetected = TRUE]

(***************************************************************************)
(* Claims about the sections                                               *)
(***************************************************************************)
\* the active region the claims describe
ExpectedActiveRegion(region) == IF region \in RegionKeys THEN region ELSE "ON"

SizeTier(size) ==
    CASE size = "studio" -> "studio"
      [] size = "1-bedroom" -> "oneBed"
      [] size = "2-bedroom" -> "twoBed"
\* sizes that are none of the three
OtherSizes == {"", "3-bedroom", "oneBed"}

\* C5: the displayed rental income and base price both come from the table
\* entry of the active region and the selected size (studio -> studio,
\* 1-bedroom -> oneBed, 2-bedroom -> twoBed), after any selections of size
\* and changes of location; for a size outside the three both are '$0'.
C5_PricesFromOneEntry ==
    LET entry == regionalKnowledge[ExpectedActiveRegion(adu_location.region)]
                    .aduPricing[SizeTier(adu_config.size)]
    IN /\ adu_memo.rentalIncome.value = entry.rentalEstimate
       /\ adu_memo.basePrice.value = entry.basePrice
       /\ \A s \in OtherSizes, k \in RegionKeys :
            /\ ADU_rentalIncome(s, k) = "$0"
            /\ ADU_basePrice(s, k) = "$0"

\* 2-bedroom selected after 1-bedroom, in British Columbia
C5_Witness ==
    /\ adu_config.size = "2-bedroom"
    /\ adu_location.region = "BC"
    /\ \E r \in adu_pending : r.config.size = "1-bedroom"
    /\ adu_memo.rentalIncome.value = "$rent BC twoBed"
    /\ adu_memo.basePrice.value = "$base BC twoBed"

\* C6 (as stated): a step in which a Solar consultation call fails (the
\* error is logged) leaves the Solar section showing the placeholder panel.
C6_Original ==
    [][solar_errors' # solar_errors =>
          SolarView(solar_result') = "placeholder"]_vars

\* C6 (amended): a step in which a consultation call fails logs the error,
\* sets loading to false and leaves the stored result as it was; so the
\* Solar section shows the placeholder if no result was stored before the
\* failure and goes on showing the stored result otherwise.
C6_FailureKeepsResult ==
    [][/\ solar_errors' # solar_errors =>
            /\ solar_errors' = solar_errors + 1
            /\ solar_result' = solar_result
            /\ ~solar_loading'
            /\ ~solar_crashed'
            /\ SolarView(solar_result') =
                  (IF ResultTruthy(solar_result) THEN "result" ELSE "placeholder")
       /\ adu_errors' # adu_errors =>
            /\ adu_errors' = adu_errors + 1
            /\ adu_result' = adu_result
            /\ ~adu_loading']_vars

\* the second call has failed and the answer to the first is still shown
C6_Witness ==
    /\ solar_issued = 2
    /\ solar_pending = {}
    /\ solar_errors = 1
    /\ solar_result.req = 1
    /\ SolarView(solar_result) = "result"

\* C7: in the Solar section loading is true exactly while a consultation
\* call is in flight, and at most one call is in flight, whatever the
\* interleaving of clicks, mode switches and responses.
C7_OneSolarCallInFlight ==
    /\ solar_loading <=> solar_pending # {}
    /\ Cardinality(solar_pending) <= 1

\* a residential call is in flight after the mode was switched to commercial,
\* where the commercial button is the one on screen
C7_Witness ==
    /\ solar_loading
    /\ solar_mode = "commercial"
    /\ \E r \in solar_pending : r.kind = "residential" /\ r.id = 2
    /\ ~Solar_ConsultEnabled(solar_loading)

\* C8 (as stated): in the ADU section loading is true if and only if at
\* least one consultation call is outstanding.
C8_Original == adu_loading <=> adu_pending # {}

\* C9 (as stated): a click on an enabled consult button issues one call (the
\* one in flight while loading is true), and a non-null stored result carries the four schema fields with
\* recommendations a list, so that rendering it never fails.
C9_Original ==
    /\ solar_loading => Cardinality(solar_pending) = 1
    /\ solar_result # SolarNull =>
          /\ solar_result.kind = "object"
          /\ solar_result.fields = SchemaFields
          /\ solar_result.recsIsList
    /\ ~solar_crashed

\* C10 (as stated): the funding / grant copy names Ontario for 'ON', British
\* Columbia for 'BC' and the raw region code otherwise, and the policy link
\* beside it is the policy URL of that same region, for every region.
C10_Original ==
    /\ adu_memo.policyLink.value \in
          { regionalKnowledge[k].policyUrl : k \in {adu_location.region} \cap RegionKeys }
    /\ SolarView(solar_result) = "result" =>
          solar_memo.policyLink.value \in
            { regionalKnowledge[k].policyUrl :
                k \in {solar_location.region} \cap RegionKeys }

\* C11: the ADU section issues one consultation call when it mounts and
\* exactly one more in each step that changes the selected size or replaces
\* the add-ons object, made with the config of that step; no other step
\* issues a call (a click on the size already selected and a change of the
\* location prop issue none), and nothing is cached: an add-on toggled twice
\* issues two calls.
C11_OneRequestPerDependencyChange ==
    /\ adu_issued = 1
    /\ [][IF adu_config'.size # adu_config.size \/ adu_addonsRef' # adu_addonsRef
            THEN /\ adu_issued' = adu_issued + 1
                 /\ adu_pending' =
                       adu_pending \cup {[id |-> adu_issued', config |-> adu_config']}
            ELSE /\ adu_issued' = adu_issued
                 /\ adu_pending' \subseteq adu_pending]_vars

\* one add-on toggled on and off again: the config is the initial one and
\* three calls have been issued
C11_Witness ==
    /\ adu_addonsRef = 2
    /\ adu_config = ADU_InitialConfig
    /\ adu_issued = 3

\* C12 (as stated): in the ADU section, once every call has settled (here:
\* resolved, none rejected), the stored result is the answer to the call
\* issued last.
C12_Original ==
    (adu_pending = {} /\ adu_errors = 0) => adu_result.req = adu_issued

\* C13 (as stated): in the Solar section a stored result that is not null
\* was produced by a consultation of the mode now selected.
C13_Original ==
    solar_result # SolarNull => solar_result.from = solar_mode

\* C14 (as stated): after a consultation call has failed the stored result
\* equals the result that was stored before that call was issued, and
\* loading is false.
C14_Original ==
    [][solar_errors' # solar_errors =>
          /\ ~solar_loading'
          /\ \A r \in solar_pending \ solar_pending' : solar_result' = r.shown]_vars

\* C14 (amended): the step in which a consultation call fails sets loading
\* to false and changes no other state of the section: the stored result
\* (null if none was ever stored), the config or the mode and the inputs,
\* and what is rendered from them are what they were just before the failure.
C14_FailureChangesOnlyLoading ==
    [][/\ solar_errors' # solar_errors =>
            /\ ~solar_loading'
            /\ <<solar_result, solar_mode, solar_resNeeds, solar_comNeeds,
                  solar_location, solar_memo, solar_crashed, solar_issued>>' =
               <<solar_result, solar_mode, solar_resNeeds, solar_comNeeds,
                 solar_location, solar_memo, solar_crashed, solar_issued>>
            /\ solar_pending' \subseteq solar_pending
       /\ adu_errors' # adu_errors =>
            /\ ~adu_loading'
            /\ <<adu_result, adu_config, adu_addonsRef, adu_location, adu_memo,
                  adu_effectDeps, adu_issued>>' =
               <<adu_result, adu_config, adu_addonsRef, adu_location, adu_memo,
                 adu_effectDeps, adu_issued>>
            /\ adu_pending' \subseteq adu_pending]_vars

\* in the ADU section one call has failed, the answer to another is stored
\* and nothing is outstanding
C14_Witness ==
    /\ adu_errors = 1
    /\ adu_result # NullResult
    /\ adu_pending = {}
    /\ ~adu_loading

\* C15: provided every network call eventually settles, every state in
\* which a section's loading is true is eventually followed by a state in
\* which it is false.
C15_LoadingEnds ==
    /\ (component = "ADUSection" /\ adu_loading) ~> ~adu_loading
    /\ (component = "SolarSection" /\ solar_loading) ~> ~solar_loading

\* two Solar calls were made, both failed, and loading is false again
C15_Witness ==
    /\ solar_issued = 2
    /\ solar_errors = 2
    /\ solar_pending = {}
    /\ ~solar_loading

\* C16: a click on a Solar mode button, the one of the current mode
\* included, can always be made while the section is on screen; it sets
\* result to null and mode to the clicked value, and leaves the residential
\* inputs, the commercial inputs and loading (and the call in flight)
\* unchanged.  A click is a step of Solar_SetMode, and any step that changes
\* the mode or clears the result while no call settles is one.
C16_ModeSwitchFrame ==
    /\ [](component = "SolarSection" /\ ~solar_crashed =>
            \A m \in Modes :
               ENABLED (Solar_SetMode /\ solar_mode' = m /\ solar_result' = SolarNull))
    /\ [][(\/ Solar_SetMode
           \/ solar_mode' # solar_mode
           \/ /\ solar_result # SolarNull /\ solar_result' = SolarNull
              /\ solar_pending' = solar_pending)
          => /\ solar_result' = SolarNull
             /\ solar_mode' \in Modes
             /\ solar_resNeeds' = solar_resNeeds
             /\ solar_comNeeds' = solar_comNeeds
             /\ solar_loading' = solar_loading
             /\ solar_pending' = solar_pending]_vars

\* a residential consultation was stored and then cleared by a switch to
\* commercial, with the priority chosen before still in the residential form
C16_Witness ==
    /\ solar_mode = "commercial"
    /\ solar_result = SolarNull
    /\ solar_issued = 1 /\ solar_pending = {} /\ solar_errors = 0
    /\ solar_resNeeds.energyPriority = "independence"

\* C17: toggleAddon(key) negates the flag of that add-on and leaves the
\* other flags, the size and the intended use as they are; applied twice
\* with one key it gives back the config it started from; toggles of two
\* different keys give the same config in either order; and all add-ons are
\* false until the first toggle.  Stated of every config the section
\* reaches and of every step that replaces the add-ons object.
C17_ToggleAddon ==
    /\ [](LET c == adu_config
              keys == DOMAIN c.addons
          IN  /\ \A k \in keys :
                   LET t == toggleAddon(c, k)
                   IN  /\ t.addons[k] = ~c.addons[k]
                       /\ \A j \in keys \ {k} : t.addons[j] = c.addons[j]
                       /\ t.size = c.size
                       /\ t.intendedUse = c.intendedUse
                       /\ toggleAddon(t, k) = c
              /\ \A k, j \in keys :
                   toggleAddon(toggleAddon(c, k), j) =
                      toggleAddon(toggleAddon(c, j), k)
              /\ adu_addonsRef = 0 => \A k \in keys : ~c.addons[k])
    /\ [][adu_addonsRef' # adu_addonsRef =>
            /\ \E k \in AddonKeys :
                  /\ adu_config'.addons[k] = ~adu_config.addons[k]
                  /\ \A j \in DOMAIN adu_config.addons \ {k} :
                        adu_config'.addons[j] = adu_config.addons[j]
            /\ adu_config'.size = adu_config.size
            /\ adu_config'.intendedUse = adu_config.intendedUse]_vars

\* two different add-ons were switched on, one after the other
C17_Witness ==
    /\ adu_addonsRef = 2
    /\ adu_config.addons.energyIndependence
    /\ adu_config.addons.smartSecurity
    /\ ~adu_config.addons.zonalComfort

\* C18: a click on a size button changes config.size and nothing else of
\* the config (the add-ons object stays the same object); in every
\* reachable state the size is 'studio', '1-bedroom' or '2-bedroom', it is
\* 'studio' at first, and the intended use is 'rental'.
C18_SizeFrame ==
    /\ adu_config.size = "studio"
    /\ [](adu_config.size \in Sizes /\ adu_config.intendedUse = "rental")
    /\ [][adu_config'.size # adu_config.size =>
            /\ adu_config' = selectSize(adu_config, adu_config'.size)
            /\ adu_config'.addons = adu_config.addons
            /\ adu_config'.intendedUse = adu_config.intendedUse
            /\ adu_addonsRef' = adu_addonsRef]_vars

\* 2-bedroom was selected after an add-on had been switched on
C18_Witness ==
    /\ adu_config.size = "2-bedroom"
    /\ adu_config.addons.zonalComfort
    /\ adu_addonsRef = 1
    /\ adu_issued = 3

\* the prefixes of a text that are an integer: an optional sign and digits
C19_IsInteger(p) ==
    LET d == IF p # <<>> /\ Head(p) \in {"+", "-"} THEN Tail(p) ELSE p
    IN  d # <<>> /\ \A i \in 1..Len(d) : d[i] \in Digits
\* the value of such a prefix, digit by digit with its power of ten
RECURSIVE C19_Positional(_, _)
C19_Positional(d, i) ==
    IF i > Len(d) THEN 0
    ELSE DigitValue[d[i]] * 10^(Len(d) - i) + C19_Positional(d, i + 1)
C19_ValueOf(p) ==
    IF Head(p) = "-" THEN 0 - C19_Positional(Tail(p), 1)
    ELSE IF Head(p) = "+" THEN C19_Positional(Tail(p), 1)
    ELSE C19_Positional(p, 1)
\* the integer at the start of the text (its longest prefix that is an
\* integer), and 0 when the text does not start with one
C19_Expected(text) ==
    LET ks == {k \in 1..Len(text) : C19_IsInteger(SubSeq(text, 1, k))}
    IN  IF ks = {} THEN 0
        ELSE C19_ValueOf(SubSeq(text, 1, CHOOSE k \in ks : \A j \in ks : j <= k))

\* C19: the numeric inputs of the Solar section never hold NaN: monthlyBill
\* and squareFootage start at 250 and 15000, and after a change event the
\* field holds the integer at the start of the text of the event, 0 when
\* the text is empty, does not start with an integer, or that integer is 0;
\* a change event of one input changes no other field of the residential
\* or commercial inputs.
C19_NumericInputs ==
    /\ solar_resNeeds.monthlyBill = Num(250)
    /\ solar_comNeeds.squareFootage = Num(15000)
    /\ [](/\ ~solar_resNeeds.monthlyBill.nan
          /\ ~solar_comNeeds.squareFootage.nan
          /\ solar_input.field = "monthlyBill" =>
                solar_resNeeds.monthlyBill = Num(C19_Expected(solar_input.text))
          /\ solar_input.field = "squareFootage" =>
                solar_comNeeds.squareFootage = Num(C19_Expected(solar_input.text)))
    /\ [][/\ (solar_input' # solar_input /\ solar_input'.field = "monthlyBill") =>
               /\ solar_resNeeds' =
                     [solar_resNeeds EXCEPT !.monthlyBill = solar_resNeeds'.monthlyBill]
               /\ solar_comNeeds' = solar_comNeeds
          /\ (solar_input' # solar_input /\ solar_input'.field = "squareFootage") =>
               /\ solar_comNeeds' =
                     [solar_comNeeds EXCEPT !.squareFootage = solar_comNeeds'.squareFootage]
               /\ solar_resNeeds' = solar_resNeeds
          /\ solar_resNeeds'.monthlyBill # solar_resNeeds.monthlyBill =>
               solar_input'.field = "monthlyBill"
          /\ solar_comNeeds'.squareFootage # solar_comNeeds.squareFootage =>
               solar_input'.field = "squareFootage"]_vars

\* the square footage was cleared, the priority was chosen, and "4e" was
\* then typed as the monthly bill
C19_Witness ==
    /\ solar_input = [field |-> "monthlyBill", text |-> <<"4", "e">>]
    /\ solar_resNeeds =
          [monthlyBill |-> Num(4), roofType |-> "asphalt-shingle",
           energyPriority |-> "independence"]
    /\ solar_comNeeds =
          [facilityType |-> "industrial", squareFootage |-> Num(0),
           primaryGoal |-> "cost-reduction"]

\* C20: at most one highlight is open: openHighlight is null or an index
\* 0..3; a click on the button of the open highlight closes it and a click
\* on another button makes that one the only open highlight.  The overlay
\* is closed at first, is opened only by a click on the framework image and
\* is closed by a click on the overlay or on its close button; a click on
\* the enlarged image leaves it open; highlight clicks and overlay clicks
\* leave each other's state alone.
C20_ViewerState ==
    /\ adu_openHighlight = HNull /\ ~adu_isEnlarged
    /\ [](/\ adu_openHighlight \in {HNull} \cup {HIdx(i) : i \in 0..3}
          /\ Cardinality(ADU_OpenHighlights(adu_openHighlight)) <= 1)
    /\ [][LET t == adu_click'.target
              i == adu_click'.idx
          IN  /\ adu_click' # adu_click =>
                   /\ t = "highlight" =>
                         /\ ADU_OpenHighlights(adu_openHighlight') =
                               (IF i \in ADU_OpenHighlights(adu_openHighlight)
                                  THEN {} ELSE {i})
                         /\ adu_isEnlarged' = adu_isEnlarged
                   /\ t = "frameworkImage" => adu_isEnlarged'
                   /\ t \in {"overlay", "closeButton"} =>
                         adu_isEnlarged /\ ~adu_isEnlarged'
                   /\ t = "enlargedImage" => adu_isEnlarged /\ adu_isEnlarged'
                   /\ t # "highlight" => adu_openHighlight' = adu_openHighlight
              /\ adu_isEnlarged' # adu_isEnlarged =>
                   /\ adu_click' # adu_click
                   /\ adu_isEnlarged' => t = "frameworkImage"
                   /\ ~adu_isEnlarged' => t \in {"overlay", "closeButton"}
              /\ adu_openHighlight' # adu_openHighlight =>
                   adu_click' # adu_click /\ t = "highlight"]_vars

\* highlight 1 was opened, then highlight 2, then the image was enlarged
\* and clicked
C20_Witness ==
    /\ adu_click = [n |-> 4, target |-> "enlargedImage", idx |-> 0]
    /\ adu_isEnlarged
    /\ ADU_OpenHighlights(adu_openHighlight) = {2}

====
